---- MODULE Spec2Model ----
(***************************************************************************)
(* Model of laundry_optimizer.py.  LaundryOptimizer.optimize_order         *)
(* validates the order, looks the delivery fee up, prices the special      *)
(* items, builds an integer program over pack purchases and individually   *)
(* paid items, hands it to the solver, and assembles the total cost and    *)
(* the breakdown.                                                          *)
(*                                                                         *)
(* Money is counted in thousandths of a euro (0.80 is 800), so that the    *)
(* source's round(_, 2) is an operation on the amounts and not a no-op.    *)
(* A string that the code takes apart (the delivery location, which is     *)
(* lower-cased, and a count given as text, which int() parses) is the      *)
(* sequence of its characters' code points.  A value of the items mapping  *)
(* is a record [kind, v]: the mapping arrives as parsed JSON, and int()    *)
(* treats an integer, a boolean, a float, a text and null differently.     *)
(***************************************************************************)
EXTENDS Integers, Sequences, FiniteSets, TLC

\* ------------------------------------------------------------------ bounds
\* The largest ordered count of generic garments, shirts and sheets, and of
\* any special item, among the orders explored.
MaxVariada == 20
MaxCamisa == 11
MaxLencol == 10
MaxSpecial == 2

\* ----------------------------------------------------------------- catalog
CATALOG ==
    [ packs_mistos |->
        << [tipo |-> "20",  capacidade |-> 20,  limite_camisas |-> 2, preco |-> 10000],
           [tipo |-> "40",  capacidade |-> 40,  limite_camisas |-> 4, preco |-> 20000],
           [tipo |-> "60",  capacidade |-> 60,  limite_camisas |-> 5, preco |-> 30000],
           [tipo |-> "80",  capacidade |-> 80,  limite_camisas |-> 5, preco |-> 37500],
           [tipo |-> "100", capacidade |-> 100, limite_camisas |-> 6, preco |-> 45000],
           [tipo |-> "150", capacidade |-> 150, limite_camisas |-> 6, preco |-> 65000],
           [tipo |-> "200", capacidade |-> 200, limite_camisas |-> 7, preco |-> 85000] >>,
      packs_camisas |->
        << [tipo |-> "10", capacidade |-> 10, preco |-> 7500],
           [tipo |-> "20", capacidade |-> 20, preco |-> 14000],
           [tipo |-> "50", capacidade |-> 50, preco |-> 37500] >>,
      packs_lencois |->
        << [tipo |-> "10", capacidade |-> 10, preco |-> 9500],
           [tipo |-> "20", capacidade |-> 20, preco |-> 18000] >>,
      avulso |->
        [ peca_variada    |-> 800,
          camisa          |-> 750,
          vestido_simples |-> 7000,
          vestido_frisado |-> 12500,
          fato            |-> 5500,
          casaco          |-> 3500,
          toalha          |-> 3500,
          lencol          |-> 1000 ] ]

\* ------------------------------------------------------------------ strings
Digits == <<"0", "1", "2", "3", "4", "5", "6", "7", "8", "9">>
UpperCase == <<"A", "B", "C", "D", "E", "F", "G", "H", "I", "J", "K", "L", "M",
               "N", "O", "P", "Q", "R", "S", "T", "U", "V", "W", "X", "Y", "Z">>
LowerCase == <<"a", "b", "c", "d", "e", "f", "g", "h", "i", "j", "k", "l", "m",
               "n", "o", "p", "q", "r", "s", "t", "u", "v", "w", "x", "y", "z">>

\* The place of the character c in the table.
IndexIn(table, c) == CHOOSE j \in DOMAIN table : table[j] = c

\* ord(c) of a space, a digit or an unaccented letter.
Ord(c) ==
    IF c = " " THEN 32
    ELSE IF \E j \in DOMAIN Digits : Digits[j] = c THEN 47 + IndexIn(Digits, c)
    ELSE IF \E j \in DOMAIN UpperCase : UpperCase[j] = c THEN 64 + IndexIn(UpperCase, c)
    ELSE 96 + IndexIn(LowerCase, c)

\* The string written with the characters chars, as code points.
Str(chars) == [i \in DOMAIN chars |-> Ord(chars[i])]

\* The keys of DELIVERY_FEES.
montijo == Str(<<"m", "o", "n", "t", "i", "j", "o">>)
lisboa == Str(<<"l", "i", "s", "b", "o", "a">>)
porto == Str(<<"p", "o", "r", "t", "o">>)
default == Str(<<"d", "e", "f", "a", "u", "l", "t">>)

DELIVERY_FEES ==
    (montijo :> 5000) @@ (lisboa :> 0) @@ (porto :> 0) @@ (default :> 5000)

\* LaundryOptimizer._SPECIALS
SPECIALS == {"vestido_simples", "vestido_frisado", "fato", "casaco", "toalha"}

\* LaundryOptimizer._DEFAULT_ITEM_KEYS: tuple(CATALOG["avulso"].keys()), the
\* keys in the order the catalog lists them.
DEFAULT_ITEM_KEYS ==
    <<"peca_variada", "camisa", "vestido_simples", "vestido_frisado", "fato", "casaco",
      "toalha", "lencol">>

\* The same keys as a set.
ItemKeys == {DEFAULT_ITEM_KEYS[i] : i \in DOMAIN DEFAULT_ITEM_KEYS}

\* ----------------------------------------------------------------- helpers
RECURSIVE Sum(_)
\* sum / lpSum of a sequence of numbers
Sum(q) == IF q = <<>> THEN 0 ELSE Head(q) + Sum(Tail(q))

RECURSIVE SumOver(_, _)
\* sum of f[k] over the keys k in S
SumOver(S, f) ==
    IF S = {} THEN 0
    ELSE LET k == CHOOSE k \in S : TRUE
         IN  f[k] + SumOver(S \ {k}, f)

Least(S) == CHOOSE n \in S : \A m \in S : n <= m

Greatest(S) == CHOOSE n \in S : \A m \in S : n >= m

AtLeastZero(n) == IF n > 0 THEN n ELSE 0

\* -------------------------------------------------------------- round(_, 2)
\* round(amount, 2) rounds the float that holds the amount, a binary fraction
\* with a 53-bit significand, and not the decimal amount.  For n thousandths
\* the float is m / 2^k with 2^52 <= m < 2^53 and m the integer nearest to
\* n * 2^k / 1000 (a tie to the even one).  When the thousandths digit is 5
\* the float lies below the decimal tie, above it or on it, and round goes
\* down, up, or to the even hundredth accordingly.  Which it is shows in the
\* remainder of n * 2^k by 1000, computed in modular arithmetic.

RECURSIVE BinaryExponent(_)
\* The e with 2^e <= n / 1000 < 2^(e+1), for n >= 1.
BinaryExponent(n) ==
    IF n >= 2000 THEN BinaryExponent(n \div 2) + 1
    ELSE IF n < 1000 THEN BinaryExponent(2 * n) - 1
    ELSE 0

RECURSIVE PowerOfTwoMod(_, _)
\* 2^k modulo m
PowerOfTwoMod(k, m) == IF k = 0 THEN 1 % m ELSE (2 * PowerOfTwoMod(k - 1, m)) % m

\* round(n / 1000, 2) in thousandths, for n >= 0.
Round2Magnitude(n) ==
    LET r == n % 10
        down == n - r
        k == 52 - BinaryExponent(n)
        q == ((n % 2000) * PowerOfTwoMod(k, 2000)) % 2000
        rem == q % 1000
        significandDownIsOdd == q >= 1000
    IN  IF r < 5 THEN down
        ELSE IF r > 5 THEN down + 10
        ELSE IF rem = 0
             THEN IF (down \div 10) % 2 = 0 THEN down ELSE down + 10
        ELSE IF rem < 500 THEN down
        ELSE IF rem > 500 THEN down + 10
        ELSE IF significandDownIsOdd THEN down + 10 ELSE down

\* round(amount, 2); a negative amount rounds as its magnitude does.
Round2(amount) ==
    IF amount < 0 THEN 0 - Round2Magnitude(0 - amount) ELSE Round2Magnitude(amount)

\* ------------------------------------------------------------- str.lower()
\* The tables below are those of the Unicode database of the Python runtime
\* (version 14.0.0), for all code points.

\* The lower-case mappings of single code points, in runs <<first, last, step,
\* delta>>: the code points first, first + step, ... up to last map to
\* themselves plus delta.
LowerCaseRuns ==
    { <<65,90,1,32>>, <<192,214,1,32>>, <<216,222,1,32>>, <<256,302,2,1>>,
      <<306,310,2,1>>, <<313,327,2,1>>, <<330,374,2,1>>, <<376,376,1,-121>>,
      <<377,381,2,1>>, <<385,385,1,210>>, <<386,388,2,1>>, <<390,390,1,206>>,
      <<391,391,1,1>>, <<393,394,1,205>>, <<395,395,1,1>>, <<398,398,1,79>>,
      <<399,399,1,202>>, <<400,400,1,203>>, <<401,401,1,1>>, <<403,403,1,205>>,
      <<404,404,1,207>>, <<406,406,1,211>>, <<407,407,1,209>>, <<408,408,1,1>>,
      <<412,412,1,211>>, <<413,413,1,213>>, <<415,415,1,214>>, <<416,420,2,1>>,
      <<422,422,1,218>>, <<423,423,1,1>>, <<425,425,1,218>>, <<428,428,1,1>>,
      <<430,430,1,218>>, <<431,431,1,1>>, <<433,434,1,217>>, <<435,437,2,1>>,
      <<439,439,1,219>>, <<440,440,1,1>>, <<444,444,1,1>>, <<452,452,1,2>>,
      <<453,453,1,1>>, <<455,455,1,2>>, <<456,456,1,1>>, <<458,458,1,2>>, <<459,475,2,1>>,
      <<478,494,2,1>>, <<497,497,1,2>>, <<498,500,2,1>>, <<502,502,1,-97>>,
      <<503,503,1,-56>>, <<504,542,2,1>>, <<544,544,1,-130>>, <<546,562,2,1>>,
      <<570,570,1,10795>>, <<571,571,1,1>>, <<573,573,1,-163>>, <<574,574,1,10792>>,
      <<577,577,1,1>>, <<579,579,1,-195>>, <<580,580,1,69>>, <<581,581,1,71>>,
      <<582,590,2,1>>, <<880,882,2,1>>, <<886,886,1,1>>, <<895,895,1,116>>,
      <<902,902,1,38>>, <<904,906,1,37>>, <<908,908,1,64>>, <<910,911,1,63>>,
      <<913,929,1,32>>, <<931,939,1,32>>, <<975,975,1,8>>, <<984,1006,2,1>>,
      <<1012,1012,1,-60>>, <<1015,1015,1,1>>, <<1017,1017,1,-7>>, <<1018,1018,1,1>>,
      <<1021,1023,1,-130>>, <<1024,1039,1,80>>, <<1040,1071,1,32>>, <<1120,1152,2,1>>,
      <<1162,1214,2,1>>, <<1216,1216,1,15>>, <<1217,1229,2,1>>, <<1232,1326,2,1>>,
      <<1329,1366,1,48>>, <<4256,4293,1,7264>>, <<4295,4295,1,7264>>,
      <<4301,4301,1,7264>>, <<5024,5103,1,38864>>, <<5104,5109,1,8>>,
      <<7312,7354,1,-3008>>, <<7357,7359,1,-3008>>, <<7680,7828,2,1>>,
      <<7838,7838,1,-7615>>, <<7840,7934,2,1>>, <<7944,7951,1,-8>>, <<7960,7965,1,-8>>,
      <<7976,7983,1,-8>>, <<7992,7999,1,-8>>, <<8008,8013,1,-8>>, <<8025,8031,2,-8>>,
      <<8040,8047,1,-8>>, <<8072,8079,1,-8>>, <<8088,8095,1,-8>>, <<8104,8111,1,-8>>,
      <<8120,8121,1,-8>>, <<8122,8123,1,-74>>, <<8124,8124,1,-9>>, <<8136,8139,1,-86>>,
      <<8140,8140,1,-9>>, <<8152,8153,1,-8>>, <<8154,8155,1,-100>>, <<8168,8169,1,-8>>,
      <<8170,8171,1,-112>>, <<8172,8172,1,-7>>, <<8184,8185,1,-128>>,
      <<8186,8187,1,-126>>, <<8188,8188,1,-9>>, <<8486,8486,1,-7517>>,
      <<8490,8490,1,-8383>>, <<8491,8491,1,-8262>>, <<8498,8498,1,28>>,
      <<8544,8559,1,16>>, <<8579,8579,1,1>>, <<9398,9423,1,26>>, <<11264,11311,1,48>>,
      <<11360,11360,1,1>>, <<11362,11362,1,-10743>>, <<11363,11363,1,-3814>>,
      <<11364,11364,1,-10727>>, <<11367,11371,2,1>>, <<11373,11373,1,-10780>>,
      <<11374,11374,1,-10749>>, <<11375,11375,1,-10783>>, <<11376,11376,1,-10782>>,
      <<11378,11378,1,1>>, <<11381,11381,1,1>>, <<11390,11391,1,-10815>>,
      <<11392,11490,2,1>>, <<11499,11501,2,1>>, <<11506,11506,1,1>>, <<42560,42604,2,1>>,
      <<42624,42650,2,1>>, <<42786,42798,2,1>>, <<42802,42862,2,1>>, <<42873,42875,2,1>>,
      <<42877,42877,1,-35332>>, <<42878,42886,2,1>>, <<42891,42891,1,1>>,
      <<42893,42893,1,-42280>>, <<42896,42898,2,1>>, <<42902,42920,2,1>>,
      <<42922,42922,1,-42308>>, <<42923,42923,1,-42319>>, <<42924,42924,1,-42315>>,
      <<42925,42925,1,-42305>>, <<42926,42926,1,-42308>>, <<42928,42928,1,-42258>>,
      <<42929,42929,1,-42282>>, <<42930,42930,1,-42261>>, <<42931,42931,1,928>>,
      <<42932,42946,2,1>>, <<42948,42948,1,-48>>, <<42949,42949,1,-42307>>,
      <<42950,42950,1,-35384>>, <<42951,42953,2,1>>, <<42960,42960,1,1>>,
      <<42966,42968,2,1>>, <<42997,42997,1,1>>, <<65313,65338,1,32>>,
      <<66560,66599,1,40>>, <<66736,66771,1,40>>, <<66928,66938,1,39>>,
      <<66940,66954,1,39>>, <<66956,66962,1,39>>, <<66964,66965,1,39>>,
      <<68736,68786,1,64>>, <<71840,71871,1,32>>, <<93760,93791,1,32>>,
      <<125184,125217,1,34>> }

\* The cased code points that are not case-ignorable, in ranges <<first, last>>.
CasedRanges ==
    { <<65,90>>, <<97,122>>, <<170,170>>, <<181,181>>, <<186,186>>, <<192,214>>,
      <<216,246>>, <<248,442>>, <<444,447>>, <<452,659>>, <<661,687>>, <<880,883>>,
      <<886,887>>, <<891,893>>, <<895,895>>, <<902,902>>, <<904,906>>, <<908,908>>,
      <<910,929>>, <<931,1013>>, <<1015,1153>>, <<1162,1327>>, <<1329,1366>>,
      <<1376,1416>>, <<4256,4293>>, <<4295,4295>>, <<4301,4301>>, <<4304,4346>>,
      <<4349,4351>>, <<5024,5109>>, <<5112,5117>>, <<7296,7304>>, <<7312,7354>>,
      <<7357,7359>>, <<7424,7467>>, <<7531,7543>>, <<7545,7578>>, <<7680,7957>>,
      <<7960,7965>>, <<7968,8005>>, <<8008,8013>>, <<8016,8023>>, <<8025,8025>>,
      <<8027,8027>>, <<8029,8029>>, <<8031,8061>>, <<8064,8116>>, <<8118,8124>>,
      <<8126,8126>>, <<8130,8132>>, <<8134,8140>>, <<8144,8147>>, <<8150,8155>>,
      <<8160,8172>>, <<8178,8180>>, <<8182,8188>>, <<8450,8450>>, <<8455,8455>>,
      <<8458,8467>>, <<8469,8469>>, <<8473,8477>>, <<8484,8484>>, <<8486,8486>>,
      <<8488,8488>>, <<8490,8493>>, <<8495,8500>>, <<8505,8505>>, <<8508,8511>>,
      <<8517,8521>>, <<8526,8526>>, <<8544,8575>>, <<8579,8580>>, <<9398,9449>>,
      <<11264,11387>>, <<11390,11492>>, <<11499,11502>>, <<11506,11507>>, <<11520,11557>>,
      <<11559,11559>>, <<11565,11565>>, <<42560,42605>>, <<42624,42651>>, <<42786,42863>>,
      <<42865,42887>>, <<42891,42894>>, <<42896,42954>>, <<42960,42961>>, <<42963,42963>>,
      <<42965,42969>>, <<42997,42998>>, <<43002,43002>>, <<43824,43866>>, <<43872,43880>>,
      <<43888,43967>>, <<64256,64262>>, <<64275,64279>>, <<65313,65338>>, <<65345,65370>>,
      <<66560,66639>>, <<66736,66771>>, <<66776,66811>>, <<66928,66938>>, <<66940,66954>>,
      <<66956,66962>>, <<66964,66965>>, <<66967,66977>>, <<66979,66993>>, <<66995,67001>>,
      <<67003,67004>>, <<68736,68786>>, <<68800,68850>>, <<71840,71903>>, <<93760,93823>>,
      <<119808,119892>>, <<119894,119964>>, <<119966,119967>>, <<119970,119970>>,
      <<119973,119974>>, <<119977,119980>>, <<119982,119993>>, <<119995,119995>>,
      <<119997,120003>>, <<120005,120069>>, <<120071,120074>>, <<120077,120084>>,
      <<120086,120092>>, <<120094,120121>>, <<120123,120126>>, <<120128,120132>>,
      <<120134,120134>>, <<120138,120144>>, <<120146,120485>>, <<120488,120512>>,
      <<120514,120538>>, <<120540,120570>>, <<120572,120596>>, <<120598,120628>>,
      <<120630,120654>>, <<120656,120686>>, <<120688,120712>>, <<120714,120744>>,
      <<120746,120770>>, <<120772,120779>>, <<122624,122633>>, <<122635,122654>>,
      <<125184,125251>>, <<127280,127305>>, <<127312,127337>>, <<127344,127369>> }

\* The case-ignorable code points, in ranges <<first, last>>.
CaseIgnorableRanges ==
    { <<39,39>>, <<46,46>>, <<58,58>>, <<94,94>>, <<96,96>>, <<168,168>>, <<173,173>>,
      <<175,175>>, <<180,180>>, <<183,184>>, <<688,879>>, <<884,885>>, <<890,890>>,
      <<900,901>>, <<903,903>>, <<1155,1161>>, <<1369,1369>>, <<1375,1375>>,
      <<1425,1469>>, <<1471,1471>>, <<1473,1474>>, <<1476,1477>>, <<1479,1479>>,
      <<1524,1524>>, <<1536,1541>>, <<1552,1562>>, <<1564,1564>>, <<1600,1600>>,
      <<1611,1631>>, <<1648,1648>>, <<1750,1757>>, <<1759,1768>>, <<1770,1773>>,
      <<1807,1807>>, <<1809,1809>>, <<1840,1866>>, <<1958,1968>>, <<2027,2037>>,
      <<2042,2042>>, <<2045,2045>>, <<2070,2093>>, <<2137,2139>>, <<2184,2184>>,
      <<2192,2193>>, <<2200,2207>>, <<2249,2306>>, <<2362,2362>>, <<2364,2364>>,
      <<2369,2376>>, <<2381,2381>>, <<2385,2391>>, <<2402,2403>>, <<2417,2417>>,
      <<2433,2433>>, <<2492,2492>>, <<2497,2500>>, <<2509,2509>>, <<2530,2531>>,
      <<2558,2558>>, <<2561,2562>>, <<2620,2620>>, <<2625,2626>>, <<2631,2632>>,
      <<2635,2637>>, <<2641,2641>>, <<2672,2673>>, <<2677,2677>>, <<2689,2690>>,
      <<2748,2748>>, <<2753,2757>>, <<2759,2760>>, <<2765,2765>>, <<2786,2787>>,
      <<2810,2815>>, <<2817,2817>>, <<2876,2876>>, <<2879,2879>>, <<2881,2884>>,
      <<2893,2893>>, <<2901,2902>>, <<2914,2915>>, <<2946,2946>>, <<3008,3008>>,
      <<3021,3021>>, <<3072,3072>>, <<3076,3076>>, <<3132,3132>>, <<3134,3136>>,
      <<3142,3144>>, <<3146,3149>>, <<3157,3158>>, <<3170,3171>>, <<3201,3201>>,
      <<3260,3260>>, <<3263,3263>>, <<3270,3270>>, <<3276,3277>>, <<3298,3299>>,
      <<3328,3329>>, <<3387,3388>>, <<3393,3396>>, <<3405,3405>>, <<3426,3427>>,
      <<3457,3457>>, <<3530,3530>>, <<3538,3540>>, <<3542,3542>>, <<3633,3633>>,
      <<3636,3642>>, <<3654,3662>>, <<3761,3761>>, <<3764,3772>>, <<3782,3782>>,
      <<3784,3789>>, <<3864,3865>>, <<3893,3893>>, <<3895,3895>>, <<3897,3897>>,
      <<3953,3966>>, <<3968,3972>>, <<3974,3975>>, <<3981,3991>>, <<3993,4028>>,
      <<4038,4038>>, <<4141,4144>>, <<4146,4151>>, <<4153,4154>>, <<4157,4158>>,
      <<4184,4185>>, <<4190,4192>>, <<4209,4212>>, <<4226,4226>>, <<4229,4230>>,
      <<4237,4237>>, <<4253,4253>>, <<4348,4348>>, <<4957,4959>>, <<5906,5908>>,
      <<5938,5939>>, <<5970,5971>>, <<6002,6003>>, <<6068,6069>>, <<6071,6077>>,
      <<6086,6086>>, <<6089,6099>>, <<6103,6103>>, <<6109,6109>>, <<6155,6159>>,
      <<6211,6211>>, <<6277,6278>>, <<6313,6313>>, <<6432,6434>>, <<6439,6440>>,
      <<6450,6450>>, <<6457,6459>>, <<6679,6680>>, <<6683,6683>>, <<6742,6742>>,
      <<6744,6750>>, <<6752,6752>>, <<6754,6754>>, <<6757,6764>>, <<6771,6780>>,
      <<6783,6783>>, <<6823,6823>>, <<6832,6862>>, <<6912,6915>>, <<6964,6964>>,
      <<6966,6970>>, <<6972,6972>>, <<6978,6978>>, <<7019,7027>>, <<7040,7041>>,
      <<7074,7077>>, <<7080,7081>>, <<7083,7085>>, <<7142,7142>>, <<7144,7145>>,
      <<7149,7149>>, <<7151,7153>>, <<7212,7219>>, <<7222,7223>>, <<7288,7293>>,
      <<7376,7378>>, <<7380,7392>>, <<7394,7400>>, <<7405,7405>>, <<7412,7412>>,
      <<7416,7417>>, <<7468,7530>>, <<7544,7544>>, <<7579,7679>>, <<8125,8125>>,
      <<8127,8129>>, <<8141,8143>>, <<8157,8159>>, <<8173,8175>>, <<8189,8190>>,
      <<8203,8207>>, <<8216,8217>>, <<8228,8228>>, <<8231,8231>>, <<8234,8238>>,
      <<8288,8292>>, <<8294,8303>>, <<8305,8305>>, <<8319,8319>>, <<8336,8348>>,
      <<8400,8432>>, <<11388,11389>>, <<11503,11505>>, <<11631,11631>>, <<11647,11647>>,
      <<11744,11775>>, <<11823,11823>>, <<12293,12293>>, <<12330,12333>>, <<12337,12341>>,
      <<12347,12347>>, <<12441,12446>>, <<12540,12542>>, <<40981,40981>>, <<42232,42237>>,
      <<42508,42508>>, <<42607,42610>>, <<42612,42621>>, <<42623,42623>>, <<42652,42655>>,
      <<42736,42737>>, <<42752,42785>>, <<42864,42864>>, <<42888,42890>>, <<42994,42996>>,
      <<43000,43001>>, <<43010,43010>>, <<43014,43014>>, <<43019,43019>>, <<43045,43046>>,
      <<43052,43052>>, <<43204,43205>>, <<43232,43249>>, <<43263,43263>>, <<43302,43309>>,
      <<43335,43345>>, <<43392,43394>>, <<43443,43443>>, <<43446,43449>>, <<43452,43453>>,
      <<43471,43471>>, <<43493,43494>>, <<43561,43566>>, <<43569,43570>>, <<43573,43574>>,
      <<43587,43587>>, <<43596,43596>>, <<43632,43632>>, <<43644,43644>>, <<43696,43696>>,
      <<43698,43700>>, <<43703,43704>>, <<43710,43711>>, <<43713,43713>>, <<43741,43741>>,
      <<43756,43757>>, <<43763,43764>>, <<43766,43766>>, <<43867,43871>>, <<43881,43883>>,
      <<44005,44005>>, <<44008,44008>>, <<44013,44013>>, <<64286,64286>>, <<64434,64450>>,
      <<65024,65039>>, <<65043,65043>>, <<65056,65071>>, <<65106,65106>>, <<65109,65109>>,
      <<65279,65279>>, <<65287,65287>>, <<65294,65294>>, <<65306,65306>>, <<65342,65342>>,
      <<65344,65344>>, <<65392,65392>>, <<65438,65439>>, <<65507,65507>>, <<65529,65531>>,
      <<66045,66045>>, <<66272,66272>>, <<66422,66426>>, <<67456,67461>>, <<67463,67504>>,
      <<67506,67514>>, <<68097,68099>>, <<68101,68102>>, <<68108,68111>>, <<68152,68154>>,
      <<68159,68159>>, <<68325,68326>>, <<68900,68903>>, <<69291,69292>>, <<69446,69456>>,
      <<69506,69509>>, <<69633,69633>>, <<69688,69702>>, <<69744,69744>>, <<69747,69748>>,
      <<69759,69761>>, <<69811,69814>>, <<69817,69818>>, <<69821,69821>>, <<69826,69826>>,
      <<69837,69837>>, <<69888,69890>>, <<69927,69931>>, <<69933,69940>>, <<70003,70003>>,
      <<70016,70017>>, <<70070,70078>>, <<70089,70092>>, <<70095,70095>>, <<70191,70193>>,
      <<70196,70196>>, <<70198,70199>>, <<70206,70206>>, <<70367,70367>>, <<70371,70378>>,
      <<70400,70401>>, <<70459,70460>>, <<70464,70464>>, <<70502,70508>>, <<70512,70516>>,
      <<70712,70719>>, <<70722,70724>>, <<70726,70726>>, <<70750,70750>>, <<70835,70840>>,
      <<70842,70842>>, <<70847,70848>>, <<70850,70851>>, <<71090,71093>>, <<71100,71101>>,
      <<71103,71104>>, <<71132,71133>>, <<71219,71226>>, <<71229,71229>>, <<71231,71232>>,
      <<71339,71339>>, <<71341,71341>>, <<71344,71349>>, <<71351,71351>>, <<71453,71455>>,
      <<71458,71461>>, <<71463,71467>>, <<71727,71735>>, <<71737,71738>>, <<71995,71996>>,
      <<71998,71998>>, <<72003,72003>>, <<72148,72151>>, <<72154,72155>>, <<72160,72160>>,
      <<72193,72202>>, <<72243,72248>>, <<72251,72254>>, <<72263,72263>>, <<72273,72278>>,
      <<72281,72283>>, <<72330,72342>>, <<72344,72345>>, <<72752,72758>>, <<72760,72765>>,
      <<72767,72767>>, <<72850,72871>>, <<72874,72880>>, <<72882,72883>>, <<72885,72886>>,
      <<73009,73014>>, <<73018,73018>>, <<73020,73021>>, <<73023,73029>>, <<73031,73031>>,
      <<73104,73105>>, <<73109,73109>>, <<73111,73111>>, <<73459,73460>>, <<78896,78904>>,
      <<92912,92916>>, <<92976,92982>>, <<92992,92995>>, <<94031,94031>>, <<94095,94111>>,
      <<94176,94177>>, <<94179,94180>>, <<110576,110579>>, <<110581,110587>>,
      <<110589,110590>>, <<113821,113822>>, <<113824,113827>>, <<118528,118573>>,
      <<118576,118598>>, <<119143,119145>>, <<119155,119170>>, <<119173,119179>>,
      <<119210,119213>>, <<119362,119364>>, <<121344,121398>>, <<121403,121452>>,
      <<121461,121461>>, <<121476,121476>>, <<121499,121503>>, <<121505,121519>>,
      <<122880,122886>>, <<122888,122904>>, <<122907,122913>>, <<122915,122916>>,
      <<122918,122922>>, <<123184,123197>>, <<123566,123566>>, <<123628,123631>>,
      <<125136,125142>>, <<125252,125259>>, <<127995,127999>>, <<917505,917505>>,
      <<917536,917631>>, <<917760,917999>> }

InRanges(c, ranges) == \E r \in ranges : r[1] <= c /\ c <= r[2]

\* The lower-case mapping of one code point.  LATIN CAPITAL LETTER I WITH DOT
\* ABOVE is the one code point whose mapping has two.
LowerOf(c) ==
    LET Holds(r) == r[1] <= c /\ c <= r[2] /\ (c - r[1]) % r[3] = 0
    IN  IF c = 304 THEN <<105, 775>>
        ELSE IF \E r \in LowerCaseRuns : Holds(r)
        THEN <<c + (CHOOSE r \in LowerCaseRuns : Holds(r))[4]>>
        ELSE <<c>>

\* The capital sigma at str[i] ends a word: going back over case-ignorable
\* characters there is a cased one, and going forward over case-ignorable
\* characters there is none.
FinalSigma(str, i) ==
    /\ \E j \in 1..(i - 1) :
          /\ InRanges(str[j], CasedRanges)
          /\ \A k \in (j + 1)..(i - 1) : InRanges(str[k], CaseIgnorableRanges)
    /\ ~\E j \in (i + 1)..Len(str) :
          /\ InRanges(str[j], CasedRanges)
          /\ \A k \in (i + 1)..(j - 1) : InRanges(str[k], CaseIgnorableRanges)

\* str.lower(): every character replaced by its lower-case mapping, a capital
\* sigma that ends a word by the final small sigma.
Lower(str) ==
    LET RECURSIVE From(_)
        From(i) ==
            IF i > Len(str) THEN <<>>
            ELSE (IF str[i] = 931 /\ FinalSigma(str, i) THEN <<962>> ELSE LowerOf(str[i]))
                 \o From(i + 1)
    IN  From(1)

\* -------------------------------------------------------------------- int()
\* The values a parsed JSON mapping can hold.  A float is held in
\* thousandths (2.7 is 2700).
Integer(n) == [kind |-> "int", v |-> n]
Boolean(b) == [kind |-> "bool", v |-> b]
Float(thousandths) == [kind |-> "float", v |-> thousandths]
NaN == [kind |-> "nan", v |-> <<>>]
Infinity == [kind |-> "inf", v |-> <<>>]
String(str) == [kind |-> "str", v |-> str]
Null == [kind |-> "NoneType", v |-> <<>>]

\* The white space int() skips around a text, in ranges <<first, last>>.
WhiteSpaceRanges ==
    { <<9,13>>, <<32,32>>, <<133,133>>, <<160,160>>, <<5760,5760>>, <<8192,8202>>,
      <<8232,8233>>, <<8239,8239>>, <<8287,8287>>, <<12288,12288>> }

\* The code point of the digit zero of every script's decimal digits (Unicode
\* category Nd); the digits one to nine follow it.
DecimalZeros ==
    { 48, 1632, 1776, 1984, 2406, 2534, 2662, 2790, 2918, 3046, 3174, 3302, 3430, 3558,
      3664, 3792, 3872, 4160, 4240, 6112, 6160, 6470, 6608, 6784, 6800, 6992, 7088, 7232,
      7248, 42528, 43216, 43264, 43472, 43504, 43600, 44016, 65296, 66720, 68912, 69734,
      69872, 69942, 70096, 70384, 70736, 70864, 71248, 71360, 71472, 71904, 72016, 72784,
      73040, 73120, 92768, 92864, 93008, 120782, 120792, 120802, 120812, 120822, 123200,
      123632, 125264, 130032 }

\* sys.get_int_max_str_digits(): the most digits int() converts.
int_max_str_digits == 4300

IsSpace(c) == InRanges(c, WhiteSpaceRanges)

IsDigit(c) == \E zero \in DecimalZeros : zero <= c /\ c <= zero + 9

\* The value of the decimal digit c.
DigitOf(c) == c - (CHOOSE zero \in DecimalZeros : zero <= c /\ c <= zero + 9)

\* The text from its first character on that is no white space.
LStrip(str) ==
    LET kept == {i \in DOMAIN str : ~IsSpace(str[i])}
    IN  IF kept = {} THEN <<>> ELSE SubSeq(str, Least(kept), Len(str))

\* The text without its sign.
Unsigned(str) == IF str # <<>> /\ Head(str) \in {43, 45} THEN Tail(str) ELSE str

\* The text up to its first character that is neither a digit nor an
\* underscore.
DigitsPrefix(str) ==
    LET other == {i \in DOMAIN str : ~IsDigit(str[i]) /\ str[i] # 95}
    IN  IF other = {} THEN str ELSE SubSeq(str, 1, Least(other) - 1)

\* Decimal digits, with single underscores allowed between two digits.
IsDigits(d) ==
    /\ d # <<>>
    /\ IsDigit(d[1]) /\ IsDigit(d[Len(d)])
    /\ \A i \in DOMAIN d :
          \/ IsDigit(d[i])
          \/ d[i] = 95 /\ IsDigit(d[i - 1]) /\ IsDigit(d[i + 1])

\* The number of digits among the digits and underscores d.
DigitCount(d) == Cardinality({i \in DOMAIN d : d[i] # 95})

\* The digits and underscores d from the first digit on that is not a zero
\* (the zeros before it add nothing to the value).
Significant(d) ==
    LET nonzero == {i \in DOMAIN d : d[i] # 95 /\ DigitOf(d[i]) # 0}
    IN  IF nonzero = {} THEN <<>> ELSE SubSeq(d, Least(nonzero), Len(d))

RECURSIVE DigitsValue(_, _)
\* The number the digits d write after the digits that gave acc.
DigitsValue(d, acc) ==
    IF d = <<>> THEN acc
    ELSE IF Head(d) = 95 THEN DigitsValue(Tail(d), acc)
    ELSE DigitsValue(Tail(d), 10 * acc + DigitOf(Head(d)))

\* int(value): the integer, or the exception raised.  An integer is returned
\* as it is, a boolean is 0 or 1, a float is cut towards zero, and anything
\* but a number or a text is a TypeError.  A text is parsed as a decimal
\* literal: white space, a sign, digits with single underscores between them,
\* white space.  The digits are read first, then counted against the limit,
\* and only then is what follows them looked at.
int(value) ==
    LET Raise(exception, message) ==
            [raises |-> exception, message |-> message, value |-> value]
        Return(n) == [raises |-> "none", value |-> n]
        signed == LStrip(value.v)
        digits == DigitsPrefix(Unsigned(signed))
        rest == SubSeq(Unsigned(signed), Len(digits) + 1, Len(Unsigned(signed)))
    IN  CASE value.kind = "int" -> Return(value.v)
          [] value.kind = "bool" -> Return(IF value.v THEN 1 ELSE 0)
          [] value.kind = "float" ->
                Return(IF value.v < 0 THEN 0 - ((0 - value.v) \div 1000)
                       ELSE value.v \div 1000)
          [] value.kind = "nan" ->
                Raise("ValueError", "cannot convert float NaN to integer")
          [] value.kind = "inf" ->
                Raise("OverflowError", "cannot convert float infinity to integer")
          [] value.kind = "str" ->
                IF ~IsDigits(digits)
                THEN Raise("ValueError", "invalid literal for int() with base 10")
                ELSE IF DigitCount(digits) > int_max_str_digits
                THEN Raise("ValueError",
                           "Exceeds the limit (4300 digits) for integer string conversion")
                ELSE IF \E i \in DOMAIN rest : ~IsSpace(rest[i])
                THEN Raise("ValueError", "invalid literal for int() with base 10")
                ELSE IF Head(signed) = 45
                THEN Return(0 - DigitsValue(Significant(digits), 0))
                ELSE Return(DigitsValue(Significant(digits), 0))
          [] OTHER ->
                Raise("TypeError",
                      "int() argument must be a string, a bytes-like object or a real number")

\* dict.get(key, fallback)
Get(dict, key, fallback) == IF key \in DOMAIN dict THEN dict[key] ELSE fallback

\* ------------------------------------------------------- the integer program
\* An assignment v gives every decision variable a value.  The variables of a
\* pack family are held in catalog order:
\*   v.x[i], v.y[i], v.z[i]   packs bought of the i-th mixed / shirt / sheet pack,
\*   v.s[i]                   shirts placed into the packs of the i-th mixed pack,
\*   v.a_var, v.a_cam, v.a_len  garments, shirts, sheets paid individually.

cost_mistos(v) ==
    Sum([i \in DOMAIN CATALOG.packs_mistos |-> CATALOG.packs_mistos[i].preco * v.x[i]])

cost_camisas(v) ==
    Sum([i \in DOMAIN CATALOG.packs_camisas |-> CATALOG.packs_camisas[i].preco * v.y[i]])

cost_lencois(v) ==
    Sum([i \in DOMAIN CATALOG.packs_lencois |-> CATALOG.packs_lencois[i].preco * v.z[i]])

cost_avulso(v) ==
    CATALOG.avulso.peca_variada * v.a_var
    + CATALOG.avulso.camisa * v.a_cam
    + CATALOG.avulso.lencol * v.a_len

\* Objective with the shirt packs' term left out.
ObjectiveWithoutShirtPacks(v) == cost_mistos(v) + cost_lencois(v) + cost_avulso(v)

\* prob += cost_mistos + cost_camisas + cost_lencois + cost_avulso
Objective(v) == cost_mistos(v) + cost_camisas(v) + cost_lencois(v) + cost_avulso(v)

\* The shirt limit taken from the pack's capacity instead of limite_camisas.
ShirtLimitByCapacity(v) ==
    \A i \in DOMAIN CATALOG.packs_mistos :
        v.s[i] <= CATALOG.packs_mistos[i].capacidade * v.x[i]

\* for p in packs_mistos: s[p] <= limite_camisas[p] * x[p]
ShirtLimitConstraint(v) ==
    \A i \in DOMAIN CATALOG.packs_mistos :
        v.s[i] <= CATALOG.packs_mistos[i].limite_camisas * v.x[i]

\* Shirt coverage that forgets the shirts placed in mixed packs.
ShirtCoverWithoutMixed(v) ==
    Sum([i \in DOMAIN CATALOG.packs_camisas |->
            CATALOG.packs_camisas[i].capacidade * v.y[i]])

\* The left side of the shirt coverage constraint without a_cam.
ShirtCover(v) ==
    Sum(v.s)
    + Sum([i \in DOMAIN CATALOG.packs_camisas |->
              CATALOG.packs_camisas[i].capacidade * v.y[i]])

\* lpSum(s) + lpSum(capacidade * y) + a_cam >= qty_camisas
ShirtCoverageConstraint(v, qty_camisas) == ShirtCover(v) + v.a_cam >= qty_camisas

\* Generic coverage that forgets to take the placed shirts off the capacity.
GenericCoverWithShirts(v) ==
    Sum([i \in DOMAIN CATALOG.packs_mistos |->
            CATALOG.packs_mistos[i].capacidade * v.x[i]])

\* The left side of the generic-garment coverage constraint without a_var.
GenericCover(v) ==
    Sum([i \in DOMAIN CATALOG.packs_mistos |->
            CATALOG.packs_mistos[i].capacidade * v.x[i] - v.s[i]])

\* lpSum(capacidade * x - s) + a_var >= qty_variada
GenericCoverageConstraint(v, qty_variada) == GenericCover(v) + v.a_var >= qty_variada

\* The left side of the sheet coverage constraint without a_len.
SheetCover(v) ==
    Sum([i \in DOMAIN CATALOG.packs_lencois |->
            CATALOG.packs_lencois[i].capacidade * v.z[i]])

\* lpSum(capacidade * z) + a_len >= qty_lencois
SheetCoverageConstraint(v, qty_lencois) == SheetCover(v) + v.a_len >= qty_lencois

\* LpVariable(name, 0, cat=LpInteger): an integer, at least 0, no upper bound.
VariableBounds(v) ==
    /\ \A i \in DOMAIN v.x : v.x[i] \in Nat
    /\ \A i \in DOMAIN v.y : v.y[i] \in Nat
    /\ \A i \in DOMAIN v.z : v.z[i] \in Nat
    /\ \A i \in DOMAIN v.s : v.s[i] \in Nat
    /\ v.a_var \in Nat /\ v.a_cam \in Nat /\ v.a_len \in Nat

\* Every constraint of the program built for the quantities (qv, qc, ql).
Constraints(v, qty_variada, qty_camisas, qty_lencois) ==
    /\ VariableBounds(v)
    /\ ShirtLimitConstraint(v)
    /\ ShirtCoverageConstraint(v, qty_camisas)
    /\ GenericCoverageConstraint(v, qty_variada)
    /\ SheetCoverageConstraint(v, qty_lencois)

\* ------------------------------------------------------------------ solver
\* prob.solve is the solver's exact search.  Its answer is modelled by what it
\* guarantees: status Optimal and some assignment of least objective among
\* those that meet the constraints, or another status when there is none.
\* The search space below holds every optimal assignment of the program:
\*  - paying every ordered item individually meets the constraints (nothing
\*    is paid for a family whose count is not positive), so an optimal
\*    assignment never costs more than that (the incumbent);
\*  - s[i] beyond the largest shirt limit times x[i] breaks the shirt limit;
\*  - a_var, a_cam and a_len each stand in one constraint only and carry a
\*    positive price, so an optimal assignment holds the least value of each
\*    that meets its constraint.

\* The objective value of paying every ordered item individually: a_var,
\* a_cam and a_len are at least 0, also when a count is negative.
Incumbent(qty_variada, qty_camisas, qty_lencois) ==
    CATALOG.avulso.peca_variada * AtLeastZero(qty_variada)
    + CATALOG.avulso.camisa * AtLeastZero(qty_camisas)
    + CATALOG.avulso.lencol * AtLeastZero(qty_lencois)

RECURSIVE Purchases(_, _, _)
\* The counts of the priced things priced[i], priced[i+1], ... whose total
\* price is at most budget.
Purchases(priced, i, budget) ==
    IF i > Len(priced) THEN { <<>> }
    ELSE UNION { { <<n>> \o rest :
                     rest \in Purchases(priced, i + 1, budget - n * priced[i].preco) }
                 : n \in 0..(budget \div priced[i].preco) }

MaxShirtLimit ==
    Greatest({CATALOG.packs_mistos[i].limite_camisas : i \in DOMAIN CATALOG.packs_mistos})

RECURSIVE Shirts(_, _)
\* The values of s[i], s[i+1], ... that some shirt limit could admit for the
\* purchases x of mixed packs.
Shirts(x, i) ==
    IF i > Len(x) THEN { <<>> }
    ELSE { <<n>> \o rest : n \in 0..(MaxShirtLimit * x[i]), rest \in Shirts(x, i + 1) }

SearchSpace(qty_variada, qty_camisas, qty_lencois) ==
    LET nm == Len(CATALOG.packs_mistos)
        nc == Len(CATALOG.packs_camisas)
        nl == Len(CATALOG.packs_lencois)
        packs == CATALOG.packs_mistos \o CATALOG.packs_camisas \o CATALOG.packs_lencois
        WithLeastAvulso(v) ==
            [x |-> v.x, y |-> v.y, z |-> v.z, s |-> v.s,
             a_var |-> AtLeastZero(qty_variada - GenericCover(v)),
             a_cam |-> AtLeastZero(qty_camisas - ShirtCover(v)),
             a_len |-> AtLeastZero(qty_lencois - SheetCover(v))]
    IN  UNION { { WithLeastAvulso([x |-> SubSeq(p, 1, nm),
                                   y |-> SubSeq(p, nm + 1, nm + nc),
                                   z |-> SubSeq(p, nm + nc + 1, nm + nc + nl),
                                   s |-> s]) :
                    s \in Shirts(SubSeq(p, 1, nm), 1) }
                : p \in Purchases(packs, 1,
                                  Incumbent(qty_variada, qty_camisas, qty_lencois)) }

\* The assignments that meet the constraints, among those searched.
FeasibleSet(qty_variada, qty_camisas, qty_lencois) ==
    { v \in SearchSpace(qty_variada, qty_camisas, qty_lencois) :
        Constraints(v, qty_variada, qty_camisas, qty_lencois) }

\* status = prob.solve(solver_name): the status, and the assignments the
\* solver may leave in the variables (every optimal one; ties are the
\* solver's to break).
solve(qty_variada, qty_camisas, qty_lencois) ==
    LET F == FeasibleSet(qty_variada, qty_camisas, qty_lencois)
        least == Least({Objective(v) : v \in F})
    IN  IF F = {}
        THEN [LpStatus |-> "Infeasible", values |-> {}]
        ELSE [LpStatus |-> "Optimal", values |-> {v \in F : Objective(v) = least}]

\* ------------------------------------------------------------- the breakdown
\* int(tipo) of a pack label of the catalog.
IntOfTipo ==
    ("10" :> 10) @@ ("20" :> 20) @@ ("40" :> 40) @@ ("50" :> 50) @@ ("60" :> 60)
    @@ ("80" :> 80) @@ ("100" :> 100) @@ ("150" :> 150) @@ ("200" :> 200)

\* {k: int(v.value()) for k, v in vars.items() if v.value()}: a dict, held as
\* the sequence of its entries in insertion order, with the entries of value
\* zero left out.
NonZeroDict(packs, values) ==
    LET RECURSIVE Build(_)
        Build(i) ==
            IF i > Len(packs) THEN <<>>
            ELSE IF values[i] # 0
                 THEN <<[tipo |-> packs[i].tipo, n |-> values[i]]>> \o Build(i + 1)
                 ELSE Build(i + 1)
    IN  Build(1)

RECURSIVE sort_dict(_)
\* _sort_dict: the entries in ascending order of int(key); sorted() is stable.
sort_dict(d) ==
    IF d = <<>> THEN <<>>
    ELSE LET rest == sort_dict(Tail(d))
             k == Cardinality({j \in DOMAIN rest :
                                 IntOfTipo[rest[j].tipo] < IntOfTipo[Head(d).tipo]})
         IN  SubSeq(rest, 1, k) \o <<Head(d)>> \o SubSeq(rest, k + 1, Len(rest))

\* ------------------------------------------------------------ optimize_order
\* order = {k: int(items.get(k, 0)) for k in _DEFAULT_ITEM_KEYS}: the order,
\* or the exception of the first key, in the order of _DEFAULT_ITEM_KEYS, whose
\* value int() does not convert.
NormalizedOrder(items) ==
    LET converted == [k \in ItemKeys |-> int(Get(items, k, Integer(0)))]
        failed == {i \in DOMAIN DEFAULT_ITEM_KEYS :
                     converted[DEFAULT_ITEM_KEYS[i]].raises # "none"}
    IN  IF failed = {}
        THEN [raises |-> "none", order |-> [k \in ItemKeys |-> converted[k].value]]
        ELSE converted[DEFAULT_ITEM_KEYS[Least(failed)]]

\* bad_keys tested against the special items instead of the order's keys.
BadKeysAgainstSpecials(items) == {k \in DOMAIN items : k \notin SPECIALS}

\* bad_keys = [k for k in items if k not in order]
BadKeys(items) == {k \in DOMAIN items : k \notin DOMAIN NormalizedOrder(items).order}

\* The fee looked up without lower-casing the location.
FeeCaseSensitive(delivery_location) ==
    Get(DELIVERY_FEES, delivery_location, DELIVERY_FEES[default])

\* fee = self.fees.get(delivery_location.lower(), self.fees["default"])
Fee(delivery_location) ==
    Get(DELIVERY_FEES, Lower(delivery_location), DELIVERY_FEES[default])

\* specials_cost with the towels left out of the special items.
SpecialsCostWithoutTowels(order) ==
    SumOver(SPECIALS \ {"toalha"},
            [k \in SPECIALS \ {"toalha"} |-> order[k] * CATALOG.avulso[k]])

\* specials_cost = sum(order[k] * avulso[k] for k in _SPECIALS)
SpecialsCost(order) ==
    SumOver(SPECIALS, [k \in SPECIALS |-> order[k] * CATALOG.avulso[k]])

\* total_cost with the fee taken off instead of added.
TotalCostMinusFee(specials_cost, var_cost, fee) == Round2(specials_cost + var_cost - fee)

\* The status compared with a name the solver never reports.
StatusIsLowerCaseOptimal(status) == status = "optimal"

\* total_cost = round(specials_cost + var_cost + fee, 2)
TotalCost(specials_cost, var_cost, fee) == Round2(specials_cost + var_cost + fee)

\* if LpStatus[status] != "Optimal": raise RuntimeError
StatusIsOptimal(status) == status = "Optimal"

\* What a call leaves once the solver has put the assignment v in the
\* variables: total_cost, breakdown and raw_vars, with the locals they are
\* computed from.
Returned(items, delivery_location, v) ==
    LET order == NormalizedOrder(items).order
        fee == Fee(delivery_location)
        specials_cost == SpecialsCost(order)
        var_cost == Objective(v)
    IN  [ status |-> "returned",
          items |-> items,
          delivery_location |-> delivery_location,
          order |-> order,
          var_cost |-> var_cost,
          total_cost |-> TotalCost(specials_cost, var_cost, fee),
          breakdown |->
            [ packs_mistos  |-> sort_dict(NonZeroDict(CATALOG.packs_mistos, v.x)),
              packs_camisas |-> sort_dict(NonZeroDict(CATALOG.packs_camisas, v.y)),
              packs_lencois |-> sort_dict(NonZeroDict(CATALOG.packs_lencois, v.z)),
              avulso |-> [peca_variada |-> v.a_var, camisa |-> v.a_cam,
                          lencol |-> v.a_len],
              camisas_nos_mistos |-> NonZeroDict(CATALOG.packs_mistos, v.s),
              custos |->
                [ pecas_especiais |-> Round2(specials_cost),
                  packs_mistos    |-> Round2(cost_mistos(v)),
                  packs_camisas   |-> Round2(cost_camisas(v)),
                  packs_lencois   |-> Round2(cost_lencois(v)),
                  avulso          |-> Round2(cost_avulso(v)),
                  entrega         |-> fee ] ],
          raw_vars |-> v ]

\* The outcomes of optimize_order(items, delivery_location): the exception of
\* int() for a count it does not convert, a ValueError naming the bad keys, a
\* RuntimeError naming the solver's status, or the returned tuple for one of
\* the optimal assignments.
optimize_order(items, delivery_location) ==
    LET normalized == NormalizedOrder(items)
        order == normalized.order
        solved == solve(order.peca_variada, order.camisa, order.lencol)
    IN  IF normalized.raises # "none"
        THEN { [status |-> normalized.raises, items |-> items,
                delivery_location |-> delivery_location,
                message |-> normalized.message,
                argument |-> normalized.value] }
        ELSE IF BadKeys(items) # {}
        THEN { [status |-> "ValueError", items |-> items,
                delivery_location |-> delivery_location,
                message |-> "Unknown item types",
                bad_keys |-> BadKeys(items)] }
        ELSE IF ~StatusIsOptimal(solved.LpStatus)
        THEN { [status |-> "RuntimeError", items |-> items,
                delivery_location |-> delivery_location,
                LpStatus |-> solved.LpStatus] }
        ELSE { Returned(items, delivery_location, v) : v \in solved.values }

\* ------------------------------------------------------------- state machine
\* call: the latest call of optimize_order and its outcome;
\* previous: the call before it.  The optimizer itself keeps no state.
VARIABLES call, previous

vars == <<call, previous>>

NoCall == [status |-> "none"]

Init == call = NoCall /\ previous = NoCall

\* One call of optimize_order, from its arguments to its outcome.
Invoke(items, delivery_location) ==
    /\ call' \in optimize_order(items, delivery_location)
    /\ previous' = call

\* The delivery locations asked for.
Locations ==
    { Str(<<"M", "o", "n", "t", "i", "j", "o">>), Str(<<"M", "O", "N", "T", "I", "J", "O">>),
      montijo, lisboa, Str(<<"L", "i", "s", "b", "o", "a">>),
      Str(<<"P", "o", "r", "t", "o">>), Str(<<"m", "a", "r", "s">>), default, <<>>,
      <<201>> \o Str(<<"v", "o", "r", "a">>), <<927, 916, 927, 931>> }

\* A first call with an order of generic garments, shirts and sheets.
OptimizeOrder ==
    /\ call.status = "none"
    /\ \E qv \in 0..MaxVariada, qc \in 0..MaxCamisa, ql \in 0..MaxLencol :
         Invoke([peca_variada |-> Integer(qv), camisa |-> Integer(qc),
                 lencol |-> Integer(ql)], default)

Next == OptimizeOrder

Spec == Init /\ [][Next]_vars

\* ---- requests with any keys and locations
\* Keys a request may carry: two of the catalog and two that are not.
RequestKeys == {"camisa", "toalha", "toalhas", "meias"}

\* The values a request may carry under a key of the catalog: counts, and
\* the other values JSON allows.
RequestCounts ==
    {Integer(n) : n \in (0 - 1)..MaxSpecial}
    \cup {Boolean(TRUE), Float(2700), String(Str(<<"3">>)), String(Str(<<" ", "2">>)),
          String(<<8195, 1635>>), String(Str(<<"a", "b", "c">>)), NaN, Null}

\* The values a request may carry under the key k.
RequestValues(k) == IF k \in ItemKeys THEN RequestCounts ELSE {Integer(1), Null}

\* A first call whose mapping carries any of RequestKeys, for any location.
Request ==
    /\ call.status = "none"
    /\ \E keys \in SUBSET RequestKeys :
         \E items \in [keys -> RequestCounts \cup {Integer(1), Null}], loc \in Locations :
            /\ \A k \in keys : items[k] \in RequestValues(k)
            /\ Invoke(items, loc)

NextRequests == Request

SpecRequests == Init /\ [][NextRequests]_vars

\* ---- two calls in a row
\* Counts around the catalog's break-even points (13 garments or 11 shirts
\* or 10 sheets cost more individually than a pack) and at the bounds.
PairVariada == {0, 1, 12, 13, MaxVariada - 1, MaxVariada}
PairCamisa == {0, 1, 2, 9, 10, MaxCamisa}
PairLencol == {0, 9, MaxLencol}

\* A first call, to be followed by a second one.
PlaceOrder ==
    /\ call.status = "none"
    /\ \E qv \in PairVariada, qc \in PairCamisa, ql \in PairLencol,
          towels \in {0, MaxSpecial},
          loc \in {default, Str(<<"L", "i", "s", "b", "o", "a">>)} :
         Invoke([peca_variada |-> Integer(qv), camisa |-> Integer(qc),
                 lencol |-> Integer(ql), toalha |-> Integer(towels)], loc)

\* The same call again.
Repeat ==
    /\ call.status = "returned" /\ previous.status = "none"
    /\ Invoke(call.items, call.delivery_location)

\* The same call with one more item of one type.
AddOne ==
    /\ call.status = "returned" /\ previous.status = "none"
    /\ \E k \in ItemKeys :
         Invoke((k :> Integer(call.order[k] + 1)) @@ call.items, call.delivery_location)

\* The same call with another count of one special item.
ChangeSpecial ==
    /\ call.status = "returned" /\ previous.status = "none"
    /\ \E k \in SPECIALS, n \in 0..MaxSpecial :
         /\ n # call.order[k]
         /\ Invoke((k :> Integer(n)) @@ call.items, call.delivery_location)

\* The same order for another location.
Relocate ==
    /\ call.status = "returned" /\ previous.status = "none"
    /\ \E loc \in Locations :
         /\ loc # call.delivery_location
         /\ Invoke(call.items, loc)

NextPairs == PlaceOrder \/ Repeat \/ AddOne \/ ChangeSpecial \/ Relocate

SpecPairs == Init /\ [][NextPairs]_vars

\* ==================================================================== claims
\* The statements below are written from the specification's wording, with
\* their own sums, and read only the catalog and what a call returned.

\* Sum of (pack price * pack count) over the three pack families, plus sum of
\* (unit price * individually paid count) over the three families.
PackPlusIndividualCost(v) ==
    LET mistos == CATALOG.packs_mistos
        camisas == CATALOG.packs_camisas
        lencois == CATALOG.packs_lencois
    IN  SumOver(DOMAIN mistos, [i \in DOMAIN mistos |-> mistos[i].preco * v.x[i]])
        + SumOver(DOMAIN camisas, [i \in DOMAIN camisas |-> camisas[i].preco * v.y[i]])
        + SumOver(DOMAIN lencois, [i \in DOMAIN lencois |-> lencois[i].preco * v.z[i]])
        + CATALOG.avulso["peca_variada"] * v.a_var
        + CATALOG.avulso["camisa"] * v.a_cam
        + CATALOG.avulso["lencol"] * v.a_len

\* Shirts placed in mixed packs, plus shirt-pack capacity, plus shirts paid
\* individually.
ShirtsDelivered(v) ==
    SumOver(DOMAIN v.s, v.s)
    + SumOver(DOMAIN v.y, [i \in DOMAIN v.y |-> CATALOG.packs_camisas[i].capacidade * v.y[i]])
    + v.a_cam

\* Mixed-pack capacity left after the shirts placed in it, plus garments paid
\* individually.
GenericDelivered(v) ==
    SumOver(DOMAIN v.x,
            [i \in DOMAIN v.x |-> CATALOG.packs_mistos[i].capacidade * v.x[i] - v.s[i]])
    + v.a_var

\* Sheet-pack capacity plus sheets paid individually.
SheetsDelivered(v) ==
    SumOver(DOMAIN v.z, [i \in DOMAIN v.z |-> CATALOG.packs_lencois[i].capacidade * v.z[i]])
    + v.a_len

WithinShirtLimits(v) ==
    \A i \in DOMAIN v.s : v.s[i] <= CATALOG.packs_mistos[i].limite_camisas * v.x[i]

\* v covers the order within the shirt limits.
CoversOrder(v, order) ==
    /\ WithinShirtLimits(v)
    /\ ShirtsDelivered(v) >= order["camisa"]
    /\ GenericDelivered(v) >= order["peca_variada"]
    /\ SheetsDelivered(v) >= order["lencol"]

\* Every purchase of packs whose price is below bound, with every placement
\* of shirts that could pass a shirt limit (s[i] above the largest limit times
\* x[i] passes none), and nothing paid individually.  Prices are positive, so
\* the set is finite and is listed in full.
CheaperPurchases(bound) ==
    LET nm == Len(CATALOG.packs_mistos)
        nc == Len(CATALOG.packs_camisas)
        nl == Len(CATALOG.packs_lencois)
        packs == CATALOG.packs_mistos \o CATALOG.packs_camisas \o CATALOG.packs_lencois
    IN  UNION { { [x |-> SubSeq(p, 1, nm),
                   y |-> SubSeq(p, nm + 1, nm + nc),
                   z |-> SubSeq(p, nm + nc + 1, nm + nc + nl),
                   a_var |-> 0, a_cam |-> 0, a_len |-> 0,
                   s |-> s] :
                    s \in Shirts(SubSeq(p, 1, nm), 1) }
                : p \in Purchases(packs, 1, bound - 1) }

\* The items of a family that the packs of w leave uncovered.
Shortfall(ordered, delivered) == IF ordered > delivered THEN ordered - delivered ELSE 0

\* The least pack-plus-individual cost of an allocation that buys the packs
\* of w, places the shirts as w does, and covers the order: each family's
\* shortfall has to be paid individually.
CostToCover(w, order) ==
    PackPlusIndividualCost(w)
    + CATALOG.avulso["peca_variada"] * Shortfall(order["peca_variada"], GenericDelivered(w))
    + CATALOG.avulso["camisa"] * Shortfall(order["camisa"], ShirtsDelivered(w))
    + CATALOG.avulso["lencol"] * Shortfall(order["lencol"], SheetsDelivered(w))

\* C1 (optimality): the objective value returned is the pack-plus-individual
\* cost of the returned allocation, that allocation covers the order within
\* the shirt limits, and no allocation that does so costs strictly less:
\* whatever packs are bought for less than the returned value, and however
\* shirts are placed in them within the limits, paying the uncovered items
\* individually brings the cost to the returned value at least.
C1_Optimality ==
    call.status = "returned" =>
        /\ CoversOrder(call.raw_vars, call.order)
        /\ call.var_cost = PackPlusIndividualCost(call.raw_vars)
        /\ \A w \in CheaperPurchases(call.var_cost) :
               WithinShirtLimits(w) => CostToCover(w, call.order) >= call.var_cost

\* C1 witness: a call returned an allocation that mixes a mixed pack, a shirt
\* pack and individually paid items.
C1_Witness ==
    /\ call.status = "returned"
    /\ call.breakdown.packs_mistos # <<>>
    /\ call.breakdown.packs_camisas # <<>>
    /\ call.breakdown.avulso.lencol > 0

\* C2 (coverage): a returned allocation covers each of the three families:
\* shirts placed in mixed packs + shirt-pack capacity + shirts paid
\* individually >= ordered shirts; mixed-pack capacity less the placed shirts
\* + garments paid individually >= ordered garments; sheet-pack capacity +
\* sheets paid individually >= ordered sheets.
C2_Coverage ==
    call.status = "returned" =>
        /\ ShirtsDelivered(call.raw_vars) >= call.order["camisa"]
        /\ GenericDelivered(call.raw_vars) >= call.order["peca_variada"]
        /\ SheetsDelivered(call.raw_vars) >= call.order["lencol"]

\* C2 witness: a returned allocation buys a mixed pack, places shirts in it,
\* pays further shirts individually and buys a sheet pack.
C2_Witness ==
    /\ call.status = "returned"
    /\ call.breakdown.camisas_nos_mistos # <<>>
    /\ call.breakdown.avulso.camisa > 0
    /\ call.breakdown.packs_lencois # <<>>

\* The shirt limit of the mixed pack labelled tipo.
LimitOfTipo(tipo) ==
    LET p == CHOOSE p \in {CATALOG.packs_mistos[i] : i \in DOMAIN CATALOG.packs_mistos} :
                 p.tipo = tipo
    IN  p.limite_camisas

\* C3 (shirt limit): in a returned allocation the shirts placed in the mixed
\* packs of a type are at most that type's shirt limit times the packs bought
\* of it, and none are placed in a type of which no pack is bought; the
\* breakdown reports the same.
C3_ShirtLimit ==
    call.status = "returned" =>
        /\ \A i \in DOMAIN call.raw_vars.s :
              /\ call.raw_vars.s[i]
                   <= CATALOG.packs_mistos[i].limite_camisas * call.raw_vars.x[i]
              /\ call.raw_vars.x[i] = 0 => call.raw_vars.s[i] = 0
        /\ \A j \in DOMAIN call.breakdown.camisas_nos_mistos :
              LET e == call.breakdown.camisas_nos_mistos[j]
              IN  \E k \in DOMAIN call.breakdown.packs_mistos :
                     /\ call.breakdown.packs_mistos[k].tipo = e.tipo
                     /\ e.n <= LimitOfTipo(e.tipo) * call.breakdown.packs_mistos[k].n

\* C3 witness: a returned allocation fills the shirt limit of the mixed packs
\* it buys.
C3_Witness ==
    /\ call.status = "returned"
    /\ \E i \in DOMAIN call.raw_vars.s :
          /\ call.raw_vars.x[i] > 0
          /\ call.raw_vars.s[i]
               = CATALOG.packs_mistos[i].limite_camisas * call.raw_vars.x[i]

\* The allocation that buys no pack and pays every ordered item individually.
EverythingIndividually(order) ==
    [x |-> [i \in DOMAIN CATALOG.packs_mistos |-> 0],
     y |-> [i \in DOMAIN CATALOG.packs_camisas |-> 0],
     z |-> [i \in DOMAIN CATALOG.packs_lencois |-> 0],
     s |-> [i \in DOMAIN CATALOG.packs_mistos |-> 0],
     a_var |-> order["peca_variada"], a_cam |-> order["camisa"], a_len |-> order["lencol"]]

\* C7 (no solver failure): a call with a valid order never ends in the
\* solver error: paying every item individually covers the order, and the
\* value returned lies between zero and the cost of doing so.
C7_NoSolverFailure ==
    /\ call.status # "RuntimeError"
    /\ call.status # "none" =>
          /\ call.status = "returned"
          /\ CoversOrder(EverythingIndividually(call.order), call.order)
          /\ call.var_cost >= 0
          /\ call.var_cost <= PackPlusIndividualCost(EverythingIndividually(call.order))
          /\ DOMAIN call.breakdown =
                {"packs_mistos", "packs_camisas", "packs_lencois", "avulso",
                 "camisas_nos_mistos", "custos"}

\* C7 witness: a call returned, for an order of all three families, the
\* allocation that pays every item individually.
C7_Witness ==
    /\ call.status = "returned"
    /\ call.order["peca_variada"] > 0 /\ call.order["camisa"] > 0 /\ call.order["lencol"] > 0
    /\ call.raw_vars = EverythingIndividually(call.order)

\* C10 (shirts reported in mixed packs): in a returned allocation the shirts
\* reported as placed in mixed packs are at most the ordered shirts, and none
\* are reported when no shirt is ordered.
C10_PlacedShirtsWithinOrder ==
    call.status = "returned" =>
        /\ SumOver(DOMAIN call.breakdown.camisas_nos_mistos,
                   [j \in DOMAIN call.breakdown.camisas_nos_mistos |->
                       call.breakdown.camisas_nos_mistos[j].n])
             <= call.order["camisa"]
        /\ call.order["camisa"] = 0 => call.breakdown.camisas_nos_mistos = <<>>

\* The eight recognized item-type names.
RecognizedKeys ==
    {"peca_variada", "camisa", "vestido_simples", "vestido_frisado", "fato", "casaco",
     "toalha", "lencol"}

\* The value is a count: a number, or a text of decimal digits.
IsCount(value) ==
    \/ value.kind \in {"int", "bool", "float"}
    \/ /\ value.kind = "str"
       /\ value.v # <<>>
       /\ \A i \in DOMAIN value.v : value.v[i] \in 48..57

\* Every recognized key of the mapping carries a count.
CarriesCounts(items) == \A k \in DOMAIN items \cap RecognizedKeys : IsCount(items[k])

\* The call ended in the validation error.
ValidationError == call.status = "ValueError" /\ "bad_keys" \in DOMAIN call

\* C6 (rejection): a call whose mapping has a key outside the eight
\* recognized names ends in the validation error, which names exactly the
\* unrecognized keys, and carries no total cost, breakdown or variables,
\* whatever the other keys, the counts (negative ones too) and the location;
\* and the validation error names nothing when every key is recognized.
\* The recognized keys carry counts: a value that is not one (null, a text
\* that is no number) makes int() raise before the keys are looked at.
C6_Rejection ==
    /\ ( /\ call.status # "none"
         /\ DOMAIN call.items \ RecognizedKeys # {}
         /\ CarriesCounts(call.items) ) =>
          /\ ValidationError
          /\ call.bad_keys = DOMAIN call.items \ RecognizedKeys
          /\ DOMAIN call \cap {"total_cost", "breakdown", "raw_vars"} = {}
    /\ ValidationError =>
          /\ call.bad_keys = DOMAIN call.items \ RecognizedKeys
          /\ call.bad_keys # {}

\* C6 witness: a call with "toalhas" beside a recognized key whose count is
\* negative, for a location other than the default, was rejected.
C6_Witness ==
    /\ ValidationError
    /\ call.bad_keys = {"toalhas"}
    /\ "camisa" \in DOMAIN call.items
    /\ call.items["camisa"].kind = "int" /\ call.items["camisa"].v < 0
    /\ call.delivery_location = <<109, 97, 114, 115>>

\* The two strings are equal up to the case of their unaccented letters.
EqualIgnoringCase(a, b) ==
    /\ Len(a) = Len(b)
    /\ \A i \in DOMAIN a :
          \/ a[i] = b[i]
          \/ \E upper \in 65..90 : {a[i], b[i]} = {upper, upper + 32}

\* C9 (delivery fee): the fee of a returned call is the table's entry for the
\* location whatever its letters' case, and the default entry when the table
\* has none; "Montijo" in any case gets the Montijo fee and "mars" the
\* default fee; a location never makes a call fail (a call whose keys are
\* recognized and carry counts returns, whatever the location).
C9_DeliveryFee ==
    /\ call.status = "returned" =>
          LET loc == call.delivery_location
              fee == call.breakdown.custos.entrega
          IN  /\ \A key \in DOMAIN DELIVERY_FEES :
                    EqualIgnoringCase(loc, key) => fee = DELIVERY_FEES[key]
              /\ (\A key \in DOMAIN DELIVERY_FEES : ~EqualIgnoringCase(loc, key))
                    => fee = DELIVERY_FEES[default]
              /\ loc \in { <<77, 111, 110, 116, 105, 106, 111>>,
                           <<77, 79, 78, 84, 73, 74, 79>>,
                           <<109, 111, 110, 116, 105, 106, 111>> }
                    => fee = DELIVERY_FEES[montijo]
              /\ loc = <<109, 97, 114, 115>> => fee = DELIVERY_FEES[default]
    /\ ( /\ call.status # "none"
         /\ DOMAIN call.items \subseteq RecognizedKeys
         /\ CarriesCounts(call.items) )
          => call.status = "returned"

\* C9 witness: a call for "Lisboa", written with a capital, returned with the
\* fee of lisboa, which is not the default fee.
C9_Witness ==
    /\ call.status = "returned"
    /\ call.delivery_location = <<76, 105, 115, 98, 111, 97>>
    /\ call.breakdown.custos.entrega = DELIVERY_FEES[lisboa]
    /\ DELIVERY_FEES[lisboa] # DELIVERY_FEES[default]

\* Both calls returned.
BothReturned == call.status = "returned" /\ previous.status = "returned"

\* C4 (non-negative, monotone): the total cost of a returned call is never
\* negative, and a call whose order has one more item of one type than the
\* call before, for the same location, does not cost less.
C4_NonNegativeMonotone ==
    /\ call.status = "returned" => call.total_cost >= 0
    /\ ( /\ BothReturned
         /\ call.delivery_location = previous.delivery_location
         /\ \E k \in RecognizedKeys :
               call.order = [previous.order EXCEPT ![k] = @ + 1] )
       => call.total_cost >= previous.total_cost

\* C4 witness: one more generic garment made the optimizer switch to a mixed
\* pack, and the total rose by less than the garment's unit price.
C4_Witness ==
    /\ BothReturned
    /\ call.delivery_location = previous.delivery_location
    /\ call.order = [previous.order EXCEPT !["peca_variada"] = @ + 1]
    /\ previous.breakdown.packs_mistos = <<>>
    /\ call.breakdown.packs_mistos # <<>>
    /\ call.total_cost > previous.total_cost
    /\ call.total_cost < previous.total_cost + CATALOG.avulso["peca_variada"]

\* The two calls had the same order and the same location.
SameCall ==
    /\ BothReturned
    /\ call.items = previous.items
    /\ call.delivery_location = previous.delivery_location

\* The spend the optimizer attributes to packs and individually paid items.
OptimizedSpend(custos) ==
    custos.packs_mistos + custos.packs_camisas + custos.packs_lencois + custos.avulso

\* C5 as stated (idempotence): two calls with the same order and location
\* return the same total cost and the same six cost entries.
C5_SameBreakdown ==
    SameCall =>
        /\ call.total_cost = previous.total_cost
        /\ call.breakdown.custos = previous.breakdown.custos

\* C5 as amended: two calls with the same order and location return the same
\* total cost, the same entries pecas_especiais and entrega, and the same sum
\* of the entries packs_mistos, packs_camisas, packs_lencois and avulso.
C5_SameTotals ==
    SameCall =>
        /\ call.total_cost = previous.total_cost
        /\ call.breakdown.custos.pecas_especiais = previous.breakdown.custos.pecas_especiais
        /\ call.breakdown.custos.entrega = previous.breakdown.custos.entrega
        /\ OptimizedSpend(call.breakdown.custos) = OptimizedSpend(previous.breakdown.custos)

\* C5 witness: the same call twice, with two different optimal allocations.
C5_Witness ==
    /\ SameCall
    /\ call.raw_vars # previous.raw_vars
    /\ call.breakdown.custos # previous.breakdown.custos

\* Sum of quantity * unit price over the five special item types.
SpecialItemsCost(order) ==
    order["vestido_simples"] * CATALOG.avulso["vestido_simples"]
    + order["vestido_frisado"] * CATALOG.avulso["vestido_frisado"]
    + order["fato"] * CATALOG.avulso["fato"]
    + order["casaco"] * CATALOG.avulso["casaco"]
    + order["toalha"] * CATALOG.avulso["toalha"]

\* The two orders agree on generic garments, shirts and sheets.
SameOptimizedCounts ==
    /\ BothReturned
    /\ call.order["peca_variada"] = previous.order["peca_variada"]
    /\ call.order["camisa"] = previous.order["camisa"]
    /\ call.order["lencol"] = previous.order["lencol"]

\* C8 (composition): the total cost is the special items' cost plus the
\* objective value plus the delivery fee, and the cost entries say the same;
\* two calls whose orders agree on generic garments, shirts and sheets have
\* the same objective value, and the allocation of either is optimal for the
\* other, whatever their special items and locations.
C8_Composition ==
    /\ call.status = "returned" =>
          /\ call.total_cost
               = SpecialItemsCost(call.order)
                 + PackPlusIndividualCost(call.raw_vars)
                 + call.breakdown.custos.entrega
          /\ call.breakdown.custos.pecas_especiais = SpecialItemsCost(call.order)
          /\ call.var_cost = PackPlusIndividualCost(call.raw_vars)
          /\ OptimizedSpend(call.breakdown.custos) = call.var_cost
    /\ SameOptimizedCounts =>
          /\ call.var_cost = previous.var_cost
          /\ CoversOrder(call.raw_vars, previous.order)
          /\ PackPlusIndividualCost(call.raw_vars) = previous.var_cost

\* C8 witness: two calls agree on the optimized counts and buy packs, and
\* differ in their special items and in their total.
C8_Witness ==
    /\ SameOptimizedCounts
    /\ call.breakdown.packs_mistos # <<>>
    /\ SpecialItemsCost(call.order) # SpecialItemsCost(previous.order)
    /\ call.total_cost # previous.total_cost
    /\ call.var_cost = previous.var_cost

====
